---- MODULE Spec2Model ----
(***************************************************************************)
(* Classical Deutsch-Jozsa black-box classification, modelled from         *)
(* src/Blackbox-Simulator-Classifier.py.                                   *)
(*                                                                         *)
(* Python lists and numpy arrays are sequences; the source's 0-based index *)
(* i is position i+1 of the sequence (operator At).  An object of class    *)
(* general_black_box is a record holding exactly the attributes its        *)
(* constructor assigned.  Every random draw (np.random.choice,             *)
(* random.shuffle, random.choice) is a nondeterministic choice over all    *)
(* the values the draw can produce.                                        *)
(***************************************************************************)
EXTENDS Integers, Sequences, FiniteSets, TLC

\* ---------------------------------------------------------------- bounds
\* largest bit-string length of SpecClassify and SpecQuery
MaxN == 2
\* how far below -2^n and above 2^n - 1 SpecQuery's probes reach
ProbeMargin == 2
\* largest maximum_bitstring_length and number_of_tests of Spec
MaxBits == 2
MaxTests == 2

\* --------------------------------------------------------------- helpers
RECURSIVE Pow2(_)
Pow2(n) == IF n <= 0 THEN 1 ELSE 2 * Pow2(n - 1)

At(list, i) == list[i + 1]

Zeros(k) == [i \in 1..k |-> 0]
Ones(k) == [i \in 1..k |-> 1]
RangeList(k) == [i \in 1..k |-> i - 1]

CountOf(list, v) == Cardinality({i \in 1..Len(list) : list[i] = v})

\* x[i], x[j] = x[j], x[i]
Swap(x, i, j) == [x EXCEPT ![i + 1] = At(x, j), ![j + 1] = At(x, i)]

\* random.shuffle(x): for i in reversed(range(1, len(x))): pick j in 0..i
\* and swap x[i], x[j].  ShuffleFrom(xs, i) is the set of arrays the loop can
\* leave behind when it is about to run the iteration for position i on one
\* of the arrays xs.
RECURSIVE ShuffleFrom(_, _)
ShuffleFrom(xs, i) ==
    IF i < 1 THEN xs
    ELSE ShuffleFrom({Swap(x, i, j) : x \in xs, j \in 0..i}, i - 1)

ShuffleOutcomes(x) == ShuffleFrom({x}, Len(x) - 1)

\* The shuffled index lists of line 116-117, one set per bit-string length.
LargestN == IF MaxN > MaxBits THEN MaxN ELSE MaxBits
ShuffledInputLists ==
    [n \in 0..LargestN |-> ShuffleOutcomes(RangeList(Pow2(n)))]

\* ------------------------------------------------- class general_black_box
\* __init__, type 0 (lines 60-68): the attributes after the draw of `bit`.
ConstantBox(n, bit) ==
    [type |-> 0, input_bitstring_length |-> n, output |-> bit]

\* ConcatenatedArray with the ones array as long as the whole input space.
ConcatenatedArray_uneven(n) ==
    LET number_of_possible_bitsrtings == Pow2(n)
    IN  Zeros(number_of_possible_bitsrtings \div 2) \o Ones(number_of_possible_bitsrtings)

\* __init__, type 1, lines 72-77: the concatenated array before the shuffle.
ConcatenatedArray(n) ==
    LET number_of_possible_bitsrtings == Pow2(n)
        half == number_of_possible_bitsrtings \div 2
    IN  Zeros(half) \o Ones(half)

\* __init__, type 1, line 81: the attributes once output_array is assigned.
BalancedBox(n, array) ==
    [type |-> 1, input_bitstring_length |-> n, output_array |-> array]

\* The bit the attributes of `self` hold for index k, 0 <= k < 2^n.
Mapping(self, k) == IF self.type = 0 THEN self.output ELSE At(self.output_array, k)

\* ArrayIndex without numpy's wrap-around of negative indices.
ArrayIndex_strict(array, k) ==
    IF k >= 0 /\ k < Len(array) THEN [outcome |-> "return", value |-> At(array, k)]
    ELSE [outcome |-> "IndexError", value |-> -1]

\* numpy 1-D integer indexing: 0 <= k < len reads position k, -len <= k < 0
\* reads position len + k, anything else raises IndexError.
ArrayIndex(array, k) ==
    IF k >= 0 /\ k < Len(array) THEN [outcome |-> "return", value |-> At(array, k)]
    ELSE IF k < 0 /\ k >= 0 - Len(array)
         THEN [outcome |-> "return", value |-> At(array, Len(array) + k)]
         ELSE [outcome |-> "IndexError", value |-> -1]

input_output_operation(self, bit_string_input) ==
    IF self.type = 0
    THEN [outcome |-> "return", value |-> self.output]
    ELSE ArrayIndex(self.output_array, bit_string_input)

\* ---------------------------------------------------- black_box_classifier
\* Python list indexing list[k] for k >= 0.
ListIndex(list, k) ==
    IF k < Len(list) THEN [outcome |-> "return", value |-> At(list, k)]
    ELSE [outcome |-> "IndexError", value |-> -1]

\* What a call of black_box_classifier leaves: how it ended, the two values
\* it returns, and the log of its input_output_operation calls (index passed
\* and bit returned), in call order.
ClassifierReturn(black_box_type, number_of_black_box_outputs, log) ==
    [outcome |-> "return", black_box_type |-> black_box_type,
     number_of_black_box_outputs |-> number_of_black_box_outputs, log |-> log]

ClassifierError(kind, log) ==
    [outcome |-> kind, black_box_type |-> -1,
     number_of_black_box_outputs |-> -1, log |-> log]

\* LoopIterations one short: range(int(N / 2) - 1).
LoopIterations_short(number_of_possible_bitsrtings) ==
    (number_of_possible_bitsrtings \div 2) - 1

\* LoopIterations over the whole list: range(N).
LoopIterations_whole(number_of_possible_bitsrtings) ==
    number_of_possible_bitsrtings

\* range(int(number_of_possible_bitsrtings / 2)), line 122
LoopIterations(number_of_possible_bitsrtings) ==
    number_of_possible_bitsrtings \div 2

\* NextPosition re-reading the position just compared: input_list[counter].
NextPosition_same(counter) == counter

\* black_box_input_list[counter+1], line 125
NextPosition(counter) == counter + 1

\* OutputCount one short: counter + 1.
OutputCount_short(counter) == counter + 1

\* number_of_black_box_outputs = counter + 2, line 134
OutputCount(counter) == counter + 2

\* OutputsDiffer with the test turned round: if output_1 == output_2.
OutputsDiffer_inverted(output_1, output_2) == output_1 = output_2

\* if black_box_output_1 != black_box_output_2, line 128
OutputsDiffer(output_1, output_2) == output_1 # output_2

\* The for loop of lines 122-131 from iteration `counter` on, followed by
\* lines 134-136.  After the last iteration Python leaves counter at
\* iterations - 1; a loop of no iteration leaves it unbound.
RECURSIVE ClassifierLoop(_, _, _, _, _, _)
ClassifierLoop(black_box, input_list, iterations, counter, output_1, log) ==
    IF counter >= iterations
    THEN IF iterations <= 0
         THEN ClassifierError("UnboundLocalError", log)
         ELSE ClassifierReturn(0, OutputCount(iterations - 1), log)
    ELSE LET position == ListIndex(input_list, NextPosition(counter))
         IN  IF position.outcome # "return"
             THEN ClassifierError(position.outcome, log)
             ELSE LET output_2 == input_output_operation(black_box, position.value)
                      logged == Append(log, [input |-> position.value,
                                             output |-> output_2.value])
                  IN  IF output_2.outcome # "return"
                      THEN ClassifierError(output_2.outcome, log)
                      ELSE IF OutputsDiffer(output_1, output_2.value)
                           THEN ClassifierReturn(0 + 1, OutputCount(counter), logged)
                           ELSE ClassifierLoop(black_box, input_list, iterations,
                                               counter + 1, output_2.value, logged)

\* black_box_classifier(black_box), lines 109-136, when random.shuffle leaves
\* black_box_input_list.
black_box_classifier(black_box, black_box_input_list) ==
    LET number_of_possible_bitsrtings == Pow2(black_box.input_bitstring_length)
        first == ListIndex(black_box_input_list, 0)
        output_1 == input_output_operation(black_box, first.value)
    IN  IF first.outcome # "return" THEN ClassifierError(first.outcome, <<>>)
        ELSE IF output_1.outcome # "return"
             THEN ClassifierError(output_1.outcome, <<>>)
             ELSE ClassifierLoop(black_box, black_box_input_list,
                                 LoopIterations(number_of_possible_bitsrtings), 0,
                                 output_1.value,
                                 <<[input |-> first.value, output |-> output_1.value]>>)

\* ------------------------------------------------ test_black_box_classifier
\* The comparison of line 174 with the sides equal instead of different.
Misclassified_inverted(true_type, black_box_type) == true_type = black_box_type

\* if black_box_in_use.type != black_box_type, line 174
Misclassified(true_type, black_box_type) == true_type # black_box_type

Warning == "Black box misclassified!"

\* ------------------------------------------- average_output_number_scaling
\* BitLength passing the loop variable itself.
BitLength_unshifted(i) == i

\* the first argument of test_black_box_classifier(i+1, number_of_tests)
BitLength(i) == i + 1

RECURSIVE SumOf(_)
SumOf(list) == IF list = <<>> THEN 0 ELSE Head(list) + SumOf(Tail(list))

\* np.mean(list) as the exact fraction sum / count.
Mean(list) == [sum |-> SumOf(list), count |-> Len(list)]

\* ------------------------------------------------------------------ state
VARIABLES
    pc,                       \* where the program is
    maximum_bitstring_length, \* arguments of average_output_number_scaling
    number_of_tests,
    i_scaling,                \* loop variable of line 194
    average_operations_list,
    plot_args,                \* what line 199-201 hand to matplotlib
    length_of_bitstring,      \* argument of test_black_box_classifier
    black_box_output_array,   \* local of general_black_box.__init__
    black_box_1,
    black_box_2,
    number_of_outputs_list,
    black_box_type_list,
    i_test,                   \* loop variable of line 164
    black_box_in_use,         \* the name of the object line 166 picked
    black_box_input_list,     \* the shuffled list of the last classifier call
    classified,               \* outcome of the last classifier call
    stdout,                   \* the lines printed
    probe,                    \* the last direct input_output_operation call
    constructed,              \* history: objects as __init__ left them, in order
    harness_calls             \* history: first argument of each harness call

vars == <<pc, maximum_bitstring_length, number_of_tests, i_scaling,
          average_operations_list, plot_args, length_of_bitstring,
          black_box_output_array, black_box_1, black_box_2,
          number_of_outputs_list, black_box_type_list, i_test, black_box_in_use,
          black_box_input_list, classified, stdout, probe, constructed,
          harness_calls>>

scaling_vars == <<maximum_bitstring_length, number_of_tests, i_scaling,
                  average_operations_list, plot_args, harness_calls>>
test_vars == <<number_of_outputs_list, black_box_type_list, i_test,
               black_box_in_use, stdout>>
call_vars == <<black_box_input_list, classified, probe>>

NoBox == [type |-> -1]
NoResult == ClassifierError("none", <<>>)
NoProbe == [input |-> 0, result |-> [outcome |-> "none", value |-> -1]]
NoPlot == [x |-> <<>>, y |-> <<>>, title |-> "", xlabel |-> ""]

Box(name) == IF name = "black_box_1" THEN black_box_1
             ELSE IF name = "black_box_2" THEN black_box_2 ELSE NoBox

\* ------------------------------------------- general_black_box.__init__
\* general_black_box(0, length_of_bitstring), lines 60-68, bound to
\* black_box_2.
ConstructConstant(from, to) ==
    /\ pc = from
    /\ \E bit \in {0, 1} :
          /\ black_box_2' = ConstantBox(length_of_bitstring, bit)
          /\ constructed' = Append(constructed, black_box_2')
    /\ pc' = to
    /\ UNCHANGED <<scaling_vars, test_vars, call_vars, length_of_bitstring,
                   black_box_output_array, black_box_1>>

\* general_black_box(1, length_of_bitstring), lines 60-77.
ConstructConcatenate(from) ==
    /\ pc = from
    /\ black_box_output_array' = ConcatenatedArray(length_of_bitstring)
    /\ pc' = "ctor_shuffle"
    /\ UNCHANGED <<scaling_vars, test_vars, call_vars, length_of_bitstring,
                   black_box_1, black_box_2, constructed>>

\* line 78
ConstructShuffle ==
    /\ pc = "ctor_shuffle"
    /\ black_box_output_array' \in ShuffleOutcomes(black_box_output_array)
    /\ pc' = "ctor_assign"
    /\ UNCHANGED <<scaling_vars, test_vars, call_vars, length_of_bitstring,
                   black_box_1, black_box_2, constructed>>

\* line 81, and the binding of the new object to black_box_1
ConstructAssign(to) ==
    /\ pc = "ctor_assign"
    /\ black_box_1' = BalancedBox(length_of_bitstring, black_box_output_array)
    /\ constructed' = Append(constructed, black_box_1')
    /\ pc' = to
    /\ UNCHANGED <<scaling_vars, test_vars, call_vars, length_of_bitstring,
                   black_box_output_array, black_box_2>>

\* ------------------------------------------------ test_black_box_classifier
\* One iteration of the loop of lines 164-175 on the object called `name`,
\* with `shuffled` the list random.shuffle leaves at line 117.  An exception
\* of the classifier is not caught anywhere: it ends the program.
TrialOn(name, shuffled) ==
    LET result == black_box_classifier(Box(name), shuffled)
    IN  /\ black_box_in_use' = name
        /\ black_box_input_list' = shuffled
        /\ classified' = result
        /\ IF result.outcome = "return"
           THEN /\ number_of_outputs_list' =
                      Append(number_of_outputs_list, result.number_of_black_box_outputs)
                /\ black_box_type_list' =
                      Append(black_box_type_list, result.black_box_type)
                /\ stdout' = IF Misclassified(Box(name).type, result.black_box_type)
                             THEN Append(stdout, Warning) ELSE stdout
                /\ i_test' = i_test + 1
                /\ pc' = "test_loop"
           ELSE /\ pc' = "raised"
                /\ UNCHANGED <<number_of_outputs_list, black_box_type_list,
                               stdout, i_test>>

\* Trial building both objects anew in every iteration.
Trial_rebuilding ==
    /\ pc = "test_loop"
    /\ i_test < number_of_tests
    /\ \E name \in {"black_box_1", "black_box_2"} :
          \E shuffled \in ShuffledInputLists[Box(name).input_bitstring_length] :
             TrialOn(name, shuffled)
    /\ \E array \in ShuffleOutcomes(ConcatenatedArray(length_of_bitstring)) :
          black_box_1' = BalancedBox(length_of_bitstring, array)
    /\ \E bit \in {0, 1} : black_box_2' = ConstantBox(length_of_bitstring, bit)
    /\ UNCHANGED <<scaling_vars, probe, length_of_bitstring,
                   black_box_output_array, constructed>>

Trial ==
    /\ pc = "test_loop"
    /\ i_test < number_of_tests
    /\ \E name \in {"black_box_1", "black_box_2"} :
          \E shuffled \in ShuffledInputLists[Box(name).input_bitstring_length] :
             TrialOn(name, shuffled)
    /\ UNCHANGED <<scaling_vars, probe, length_of_bitstring,
                   black_box_output_array, black_box_1, black_box_2, constructed>>

\* ------------------------------------------- average_output_number_scaling
\* Line 194 with an iteration left, line 196's call, lines 156-161 up to the
\* first constructor call.
ScalingCallTest ==
    /\ pc = "scaling_loop"
    /\ i_scaling < maximum_bitstring_length
    /\ length_of_bitstring' = BitLength(i_scaling)
    /\ harness_calls' = Append(harness_calls, length_of_bitstring')
    /\ number_of_outputs_list' = <<>>
    /\ black_box_type_list' = <<>>
    /\ i_test' = 0
    /\ black_box_1' = NoBox
    /\ black_box_2' = NoBox
    /\ black_box_in_use' = "none"
    /\ constructed' = <<>>
    /\ pc' = "line156"
    /\ UNCHANGED <<maximum_bitstring_length, number_of_tests, i_scaling,
                   average_operations_list, plot_args, black_box_output_array,
                   call_vars, stdout>>

\* Line 164 with no iteration left, the return of line 177 and line 198.
ScalingAppendMean ==
    /\ pc = "test_loop"
    /\ i_test >= number_of_tests
    /\ average_operations_list' =
          Append(average_operations_list, Mean(number_of_outputs_list))
    /\ i_scaling' = i_scaling + 1
    /\ pc' = "scaling_loop"
    /\ UNCHANGED <<maximum_bitstring_length, number_of_tests, plot_args,
                   harness_calls, test_vars, call_vars, length_of_bitstring,
                   black_box_output_array, black_box_1, black_box_2, constructed>>

\* Line 194 with no iteration left, lines 199-203.
ScalingPlot ==
    /\ pc = "scaling_loop"
    /\ i_scaling >= maximum_bitstring_length
    /\ plot_args' = [x |-> [k \in 1..maximum_bitstring_length |-> BitLength(k - 1)],
                     y |-> average_operations_list,
                     title |-> "Average number of outputs computed for classification",
                     xlabel |-> "Number of bits in bitstring"]
    /\ pc' = "done"
    /\ UNCHANGED <<maximum_bitstring_length, number_of_tests, i_scaling,
                   average_operations_list, harness_calls, test_vars, call_vars,
                   length_of_bitstring, black_box_output_array, black_box_1,
                   black_box_2, constructed>>

\* -------------------------------------------------------- the whole program
\* average_output_number_scaling(maximum_bitstring_length, number_of_tests)
Init ==
    /\ pc = "scaling_loop"
    /\ maximum_bitstring_length \in 1..MaxBits
    /\ number_of_tests \in 1..MaxTests
    /\ i_scaling = 0
    /\ average_operations_list = <<>>
    /\ plot_args = NoPlot
    /\ length_of_bitstring = 0
    /\ black_box_output_array = <<>>
    /\ black_box_1 = NoBox
    /\ black_box_2 = NoBox
    /\ number_of_outputs_list = <<>>
    /\ black_box_type_list = <<>>
    /\ i_test = 0
    /\ black_box_in_use = "none"
    /\ black_box_input_list = <<>>
    /\ classified = NoResult
    /\ stdout = <<>>
    /\ probe = NoProbe
    /\ constructed = <<>>
    /\ harness_calls = <<>>

Next ==
    \/ ScalingCallTest
    \/ ConstructConcatenate("line156")
    \/ ConstructShuffle
    \/ ConstructAssign("line157")
    \/ ConstructConstant("line157", "test_loop")
    \/ Trial
    \/ ScalingAppendMean
    \/ ScalingPlot

Spec == Init /\ [][Next]_vars

\* ------------------------------------ one object, constructed and then used
\* general_black_box(t, n) for either type t and 1 <= n <= MaxN, followed by
\* one black_box_classifier call (SpecClassify) or by one direct
\* input_output_operation call with any index near the input space (SpecQuery).
InitUnit ==
    /\ pc = "start"
    /\ length_of_bitstring \in 1..MaxN
    /\ maximum_bitstring_length = 0
    /\ number_of_tests = 1
    /\ i_scaling = 0
    /\ average_operations_list = <<>>
    /\ plot_args = NoPlot
    /\ black_box_output_array = <<>>
    /\ black_box_1 = NoBox
    /\ black_box_2 = NoBox
    /\ number_of_outputs_list = <<>>
    /\ black_box_type_list = <<>>
    /\ i_test = 0
    /\ black_box_in_use = "none"
    /\ black_box_input_list = <<>>
    /\ classified = NoResult
    /\ stdout = <<>>
    /\ probe = NoProbe
    /\ constructed = <<>>
    /\ harness_calls = <<>>

BuiltNames == {name \in {"black_box_1", "black_box_2"} : Box(name).type # -1}

\* black_box_classifier(black_box) on the object just constructed.
Classify ==
    /\ pc = "built"
    /\ \E name \in BuiltNames :
          \E shuffled \in ShuffledInputLists[Box(name).input_bitstring_length] :
             /\ black_box_in_use' = name
             /\ black_box_input_list' = shuffled
             /\ classified' = black_box_classifier(Box(name), shuffled)
    /\ pc' = "classified"
    /\ UNCHANGED <<scaling_vars, number_of_outputs_list, black_box_type_list,
                   i_test, stdout, probe, length_of_bitstring,
                   black_box_output_array, black_box_1, black_box_2, constructed>>

ProbeInputs(n) == (0 - Pow2(n) - ProbeMargin)..(Pow2(n) + ProbeMargin - 1)

\* black_box.input_output_operation(bit_string_input) on the object just
\* constructed.
Probe ==
    /\ pc = "built"
    /\ \E name \in BuiltNames :
          \E bit_string_input \in ProbeInputs(Box(name).input_bitstring_length) :
             /\ black_box_in_use' = name
             /\ probe' = [input |-> bit_string_input,
                          result |-> input_output_operation(Box(name), bit_string_input)]
    /\ pc' = "probed"
    /\ UNCHANGED <<scaling_vars, number_of_outputs_list, black_box_type_list,
                   i_test, stdout, black_box_input_list, classified,
                   length_of_bitstring, black_box_output_array, black_box_1,
                   black_box_2, constructed>>

NextClassify ==
    \/ ConstructConcatenate("start")
    \/ ConstructShuffle
    \/ ConstructAssign("built")
    \/ ConstructConstant("start", "built")
    \/ Classify

SpecClassify == InitUnit /\ [][NextClassify]_vars

NextQuery ==
    \/ ConstructConcatenate("start")
    \/ ConstructShuffle
    \/ ConstructAssign("built")
    \/ ConstructConstant("start", "built")
    \/ Probe

SpecQuery == InitUnit /\ [][NextQuery]_vars

\* ================================================================ claims
InUse == Box(black_box_in_use)
Bits == InUse.input_bitstring_length
QueryBound(n) == Pow2(n - 1) + 1
Minimum(S) == CHOOSE m \in S : \A k \in S : m <= k
IsBalancedArray(array, n) ==
    /\ Len(array) = Pow2(n)
    /\ CountOf(array, 0) = Pow2(n - 1)
    /\ CountOf(array, 1) = Pow2(n - 1)

\* C1: whatever the object (Constant with either bit, Balanced with any
\* arrangement) and whatever list the shuffle left, black_box_classifier
\* returns, and the type it returns is the object's own type.
C1_VerdictIsTrueType ==
    pc = "classified" =>
        /\ classified.outcome = "return"
        /\ classified.black_box_type = InUse.type

C1_Witness ==
    /\ pc = "classified"
    /\ InUse.type = 1
    /\ Bits = 2
    /\ classified.black_box_type = 1
    /\ classified.number_of_black_box_outputs = 3

\* C2: the returned query count lies between 2 and 2^(n-1)+1.
C2_CountWithinBounds ==
    pc = "classified" =>
        /\ classified.number_of_black_box_outputs >= 2
        /\ classified.number_of_black_box_outputs <= QueryBound(Bits)

C2_Witness ==
    /\ pc = "classified"
    /\ Bits = 2
    /\ classified.number_of_black_box_outputs = 2
    /\ black_box_input_list # RangeList(4)

\* C3: a Constant object is classified with exactly 2^(n-1)+1 queries,
\* whichever bit it holds; for n = 1 the result is (Constant, 2).
C3_ConstantCountExact ==
    (pc = "classified" /\ InUse.type = 0) =>
        /\ classified.number_of_black_box_outputs = QueryBound(Bits)
        /\ Bits = 1 => /\ classified.black_box_type = 0
                       /\ classified.number_of_black_box_outputs = 2

C3_Witness ==
    /\ pc = "classified"
    /\ InUse.type = 0
    /\ InUse.output = 1
    /\ Bits = 2
    /\ classified.number_of_black_box_outputs = 3

\* The 0-based positions of the list whose stored output differs from the
\* stored output at position 0.
MismatchPositions ==
    {k \in 0..(Len(black_box_input_list) - 1) :
        Mapping(InUse, At(black_box_input_list, k)) #
            Mapping(InUse, At(black_box_input_list, 0))}

\* C4: for a Balanced object the returned query count is 1 + k, k being the
\* first position of the shuffled list whose output differs from the output
\* at position 0, and it is at most 2^(n-1)+1.
C4_BalancedCountIsFirstMismatch ==
    (pc = "classified" /\ InUse.type = 1) =>
        /\ MismatchPositions # {}
        /\ classified.number_of_black_box_outputs = 1 + Minimum(MismatchPositions)
        /\ classified.number_of_black_box_outputs <= QueryBound(Bits)

C4_Witness ==
    /\ pc = "classified"
    /\ InUse.type = 1
    /\ Bits = 2
    /\ Minimum(MismatchPositions) = 2
    /\ Mapping(InUse, At(black_box_input_list, 0)) = 1

\* C5: the array of a Balanced object has length 2^n with 2^(n-1) zeros and
\* 2^(n-1) ones, before the shuffle (pc = "ctor_shuffle"), after it
\* (pc = "ctor_assign") and as the attribute of the finished object.
C5_BalancedArrayIsBalanced ==
    /\ pc \in {"ctor_shuffle", "ctor_assign"} =>
          IsBalancedArray(black_box_output_array, length_of_bitstring)
    /\ black_box_1.type = 1 =>
          IsBalancedArray(black_box_1.output_array, length_of_bitstring)

C5_Witness ==
    /\ pc = "built"
    /\ black_box_1.type = 1
    /\ length_of_bitstring = 2
    /\ black_box_1.output_array = <<1, 0, 1, 0>>

\* C6: during the trials of one harness run exactly two objects have been
\* constructed, the Balanced one and then the Constant one, both before the
\* first trial; black_box_1 and black_box_2 are still as their constructors
\* left them; and every bit a query of the last trial returned is the bit the
\* object held for that index at construction.
C6_OraclesBuiltOnceAndUnchanged ==
    pc = "test_loop" =>
        /\ Len(constructed) = 2
        /\ constructed[1].type = 1
        /\ constructed[2].type = 0
        /\ black_box_1 = constructed[1]
        /\ black_box_2 = constructed[2]
        /\ i_test > 0 =>
              \A k \in 1..Len(classified.log) :
                 classified.log[k].output =
                    Mapping(constructed[IF black_box_in_use = "black_box_1"
                                        THEN 1 ELSE 2],
                            classified.log[k].input)

C6_Witness ==
    /\ pc = "test_loop"
    /\ length_of_bitstring = 2
    /\ i_test = 2
    /\ black_box_in_use = "black_box_1"
    /\ black_box_type_list = <<0, 1>>
    /\ Len(classified.log) = 3

\* C7 as stated: a direct query with an index outside [0, 2^n) ends in an
\* error and returns no bit, for either type of object.
C7_OutOfRangeRejected ==
    (pc = "probed" /\ probe.input \notin 0..(Pow2(Bits) - 1)) =>
        probe.result.outcome # "return"

\* C7 as amended: no range check is made.  A Constant object returns its bit
\* for every index.  A Balanced object raises IndexError only for an index
\* >= 2^n or < -2^n; for -2^n <= index < 0 it returns the entry at position
\* 2^n + index.
C7_OutOfRangeUnchecked ==
    (pc = "probed" /\ probe.input \notin 0..(Pow2(Bits) - 1)) =>
        IF InUse.type = 0
        THEN probe.result = [outcome |-> "return", value |-> InUse.output]
        ELSE IF probe.input >= Pow2(Bits) \/ probe.input < 0 - Pow2(Bits)
             THEN probe.result.outcome = "IndexError"
             ELSE probe.result =
                     [outcome |-> "return",
                      value |-> At(InUse.output_array, Pow2(Bits) + probe.input)]

C7_Witness ==
    /\ pc = "probed"
    /\ InUse.type = 1
    /\ Bits = 2
    /\ probe.input = -1
    /\ probe.result.outcome = "return"
    /\ probe.result.value # At(InUse.output_array, 0)

\* C8: the k-th harness call is made with bit length k, the k-th mean is taken
\* over number_of_tests query counts and lies within [2, 2^(k-1)+1], and when
\* the driver is done there are exactly maximum_bitstring_length means,
\* plotted against 1, 2, ..., maximum_bitstring_length.
C8_ScalingCurve ==
    /\ \A k \in 1..Len(harness_calls) : harness_calls[k] = k
    /\ Len(average_operations_list) <= Len(harness_calls)
    /\ Len(harness_calls) <= maximum_bitstring_length
    /\ \A k \in 1..Len(average_operations_list) :
          /\ average_operations_list[k].count = number_of_tests
          /\ average_operations_list[k].sum >= 2 * number_of_tests
          /\ average_operations_list[k].sum <= QueryBound(k) * number_of_tests
    /\ pc = "done" =>
          /\ Len(average_operations_list) = maximum_bitstring_length
          /\ Len(harness_calls) = maximum_bitstring_length
          /\ plot_args.y = average_operations_list
          /\ plot_args.x = [k \in 1..maximum_bitstring_length |-> k]

C8_Witness ==
    /\ pc = "done"
    /\ maximum_bitstring_length = 2
    /\ number_of_tests = 2
    /\ average_operations_list = <<[sum |-> 4, count |-> 2], [sum |-> 5, count |-> 2]>>

C10_QueriesArePrefixOfShuffle ==
    pc = "classified" =>
        /\ classified.outcome = "return"
        /\ Len(classified.log) = classified.number_of_black_box_outputs
        /\ Len(classified.log) <= Len(black_box_input_list)
        /\ \A k \in 1..Len(classified.log) :
              /\ classified.log[k].input = black_box_input_list[k]
              /\ classified.log[k].input \in 0..(Pow2(Bits) - 1)
              /\ k < Len(classified.log) =>
                    classified.log[k].output = classified.log[1].output
        /\ \A j, k \in 1..Len(classified.log) :
              j # k => classified.log[j].input # classified.log[k].input

C10_Witness ==
    /\ pc = "classified"
    /\ Bits = 2
    /\ Len(classified.log) = 3
    /\ classified.log[3].output # classified.log[1].output
    /\ classified.log[1].input = 3

====
